---- MODULE Spec2Model ----
(***************************************************************************)
(* Model of term_bg.py: the environment heuristics that guess whether the  *)
(* terminal background is dark (is_dark_color_fg_bg, get_default_bg,       *)
(* is_dark_background, is_dark_rgb) and the raw-mode OSC 10/11 query of    *)
(* the live terminal (xterm_compatible_fg_bg).                             *)
(*                                                                         *)
(* Python strings are sequences of one-character strings; the control      *)
(* characters are the tokens ESC, BEL, BS and NL.  Python's None is the    *)
(* one-element sequence NONE where a string is expected.                   *)
(***************************************************************************)
EXTENDS Integers, Sequences, FiniteSets, TLC

VARIABLES
    environ,          \* os.environ: DARK_BG, COLORFGBG, TERM
    call,             \* the last heuristic call: function, arguments, result
    isatty,           \* os.isatty of fdi and fdo
    sameDev,          \* fdi and fdo are descriptors of one terminal device
    attr,             \* termios attributes of each terminal device
    orig,             \* the attributes each device had when the attempt began
    tosend,           \* characters the terminal has still to send
    inq,              \* characters waiting in the input descriptor's queue
    eof,              \* the terminal has hung up
    out,              \* strings written to fo
    buf,              \* characters the text stream fi has read ahead
    pc,               \* line of xterm_compatible_fg_bg about to run
    old_settings_in,  \* local of xterm_compatible_fg_bg
    old_settings_out, \* local of xterm_compatible_fg_bg
    r,                \* fi in r, the result of select
    data,             \* local of xterm_compatible_fg_bg
    exc,              \* step whose exception is propagating, or "none"
    retval,           \* value of the return statement executed, or NoReturn
    log               \* calls the attempt has made so far, in order

envVars == <<environ, call>>
termVars == <<isatty, sameDev, attr, orig, tosend, inq, eof, out, buf>>
progVars == <<pc, old_settings_in, old_settings_out, r, data, exc, retval>>
histVars == <<log>>
vars == <<envVars, termVars, progVars, histVars>>

\* Number of stray characters typed ahead of, or sent around, a response.
MaxStray == 1

----------------------------------------------------------------------------
(* Strings *)

NONE == <<"None">>
ESC == "ESC"
BEL == "BEL"
BS == "BS"
NL == "NL"

startswith(s, p) == Len(s) >= Len(p) /\ SubSeq(s, 1, Len(p)) = p

\* "".join of n copies of s
RECURSIVE Repeat(_, _)
Repeat(s, n) == IF n = 0 THEN <<>> ELSE s \o Repeat(s, n - 1)

\* Python truthiness of an Optional[str]
Truthy(s) == s # NONE /\ s # <<>>

s_0 == <<"0">>
s_1 == <<"1">>
s_15_0 == <<"1", "5", ";", "0">>
s_15_default_0 == <<"1", "5", ";", "d", "e", "f", "a", "u", "l", "t", ";", "0">>
s_0_15 == <<"0", ";", "1", "5">>
s_0_default_15 == <<"0", ";", "d", "e", "f", "a", "u", "l", "t", ";", "1", "5">>
s_xterm == <<"x", "t", "e", "r", "m">>
s_eterm == <<"e", "t", "e", "r", "m">>
s_dtterm == <<"d", "t", "t", "e", "r", "m">>

----------------------------------------------------------------------------
(* The heuristics.  A returned bool or None is PyTrue, PyFalse or PyNone;   *)
(* True is the verdict "dark", False the verdict "light".                  *)

PyTrue == "True"
PyFalse == "False"
PyNone == "None"

\* get_default_bg with "dtterm" taken as a prefix like the other two names
get_default_bg_prefix(term) ==
    IF Truthy(term)
    THEN IF startswith(term, s_xterm) \/ startswith(term, s_eterm)
            \/ startswith(term, s_dtterm)
         THEN PyFalse
         ELSE PyTrue
    ELSE PyTrue

\* get_default_bg with environ.get("TERM", None) = term
get_default_bg(term) ==
    IF Truthy(term)
    THEN IF startswith(term, s_xterm) \/ startswith(term, s_eterm) \/ term = s_dtterm
         THEN PyFalse
         ELSE PyTrue
    ELSE PyTrue

\* is_dark_rgb: the red term of the sum is the constant 16 * 5
is_dark_rgb(red, g, b) ==
    IF (16 * 5 + 16 * g + 16 * b) < 117963 THEN PyTrue ELSE PyFalse

\* is_dark_color_fg_bg testing "if dark_bg:" where it tests "is not None"
is_dark_color_fg_bg_truthy(dark_bg, color_fg_bg) ==
    IF Truthy(dark_bg)
    THEN IF dark_bg # s_0 THEN PyTrue ELSE PyFalse
    ELSE IF Truthy(color_fg_bg)
         THEN IF color_fg_bg \in {s_15_0, s_15_default_0} THEN PyTrue
              ELSE IF color_fg_bg \in {s_0_15, s_0_default_15} THEN PyFalse
              ELSE PyNone
         ELSE PyTrue

\* is_dark_color_fg_bg with DARK_BG = dark_bg and COLORFGBG = color_fg_bg
is_dark_color_fg_bg(dark_bg, color_fg_bg) ==
    IF dark_bg # NONE
    THEN IF dark_bg # s_0 THEN PyTrue ELSE PyFalse
    ELSE IF Truthy(color_fg_bg)
         THEN IF color_fg_bg \in {s_15_0, s_15_default_0} THEN PyTrue
              ELSE IF color_fg_bg \in {s_0_15, s_0_default_15} THEN PyFalse
              ELSE PyNone
         ELSE PyTrue

\* is_dark_background
is_dark_background(dark_bg, color_fg_bg, term) ==
    LET dark == is_dark_color_fg_bg(dark_bg, color_fg_bg)
    IN  IF dark = PyNone THEN get_default_bg(term) ELSE dark

----------------------------------------------------------------------------
(* The query and the response grammar of xterm_compatible_fg_bg *)

fg_str == <<ESC, "]", "1", "0", ";">>
bg_str == <<ESC, "]", "1", "1", ";">>
query_rgb == fg_str \o <<"?", BEL>> \o bg_str \o <<"?", BEL>>
bs == Repeat(<<BS>>, Len(query_rgb))
s_rgb == <<"r", "g", "b", ":">>

\* the number of characters fi.read is asked for
ReadSize == 48

\* the character class [0-9a-f]
HexLower == {"0", "1", "2", "3", "4", "5", "6", "7", "8", "9",
             "a", "b", "c", "d", "e", "f"}

\* A pattern is a sequence of positions, each the set of characters it
\* accepts and the number of the capture group it belongs to (0: none).
Lit(s) == [i \in 1..Len(s) |-> [cls |-> {s[i]}, grp |-> 0]]

\* hex_pat with the class [0-9a-fA-F]
hex_pat_any_case(k) ==
    [i \in 1..4 |-> [cls |-> HexLower \cup {"A", "B", "C", "D", "E", "F"}, grp |-> k]]

\* "([0-9a-f]{4})" as capture group k
hex_pat(k) == [i \in 1..4 |-> [cls |-> HexLower, grp |-> k]]

\* "/".join([hex_pat] * 3) + "\07", its groups numbered k+1, k+2, k+3
rgb_pat(k) ==
    hex_pat(k + 1) \o Lit(<<"/">>) \o hex_pat(k + 2) \o Lit(<<"/">>)
        \o hex_pat(k + 3) \o Lit(<<BEL>>)

\* "%srgb:%s%srgb:%s" % (fg_str, rgb_pat, bg_str, rgb_pat)
fg_bg_pat ==
    Lit(fg_str) \o Lit(s_rgb) \o rgb_pat(0) \o Lit(bg_str) \o Lit(s_rgb) \o rgb_pat(3)

\* re.match(pat, s): the pattern matches at the start of s
re_match(pat, s) ==
    /\ s # NONE
    /\ Len(s) >= Len(pat)
    /\ \A i \in 1..Len(pat) : s[i] \in pat[i].cls

\* m.group(k) of a successful match: a str
group(pat, s, k) ==
    LET idx == {i \in 1..Len(pat) : pat[i].grp = k}
        lo == CHOOSE i \in idx : \A j \in idx : i <= j
    IN  [type |-> "str", s |-> SubSeq(s, lo, lo + Cardinality(idx) - 1), n |-> 0]

\* What a return statement of xterm_compatible_fg_bg gives
NoReturn == [kind |-> "unset", fg |-> <<>>, bg |-> <<>>]
NoneNone == [kind |-> "None, None", fg |-> <<>>, bg |-> <<>>]
FgBg(pat, s) ==
    [kind |-> "fg, bg",
     fg |-> <<group(pat, s, 1), group(pat, s, 2), group(pat, s, 3)>>,
     bg |-> <<group(pat, s, 4), group(pat, s, 5), group(pat, s, 6)>>]

----------------------------------------------------------------------------
(* The terminal: what it may answer to the query written to it *)

c_ffff == <<"f", "f", "f", "f">>
c_0000 == <<"0", "0", "0", "0">>
c_1a2b == <<"1", "a", "2", "b">>
c_FFFF == <<"F", "F", "F", "F">>
c_fffg == <<"f", "f", "f", "g">>
c_fff == <<"f", "f", "f">>
c_fffff == <<"f", "f", "f", "f", "f">>

Color(c1, c2, c3) == s_rgb \o c1 \o <<"/">> \o c2 \o <<"/">> \o c3

\* The response to OSC 10 ; ? and OSC 11 ; ? with the given channel texts
Reply(f, b) ==
    fg_str \o Color(f[1], f[2], f[3]) \o <<BEL>>
        \o bg_str \o Color(b[1], b[2], b[3]) \o <<BEL>>

White == <<c_ffff, c_ffff, c_ffff>>
Black == <<c_0000, c_0000, c_0000>>
Mixed == <<c_1a2b, c_0000, c_ffff>>

WellFormed == {Reply(White, Black), Reply(Black, White), Reply(Mixed, Mixed)}

Stray(k) == Repeat(<<"x">>, k)

Malformed ==
    {Reply(<<c_FFFF, c_ffff, c_ffff>>, Black),       \* upper-case digits
     Reply(White, <<c_0000, c_fffg, c_0000>>),       \* a non-hex character
     Reply(<<c_fff, c_ffff, c_ffff>>, Black),        \* three digits
     Reply(White, <<c_0000, c_0000, c_fffff>>),      \* five digits
     SubSeq(Reply(White, Black), 1, ReadSize - 1),   \* no final BEL
     fg_str \o Color(c_ffff, c_ffff, c_ffff) \o <<ESC, "\\">>
         \o bg_str \o Color(c_0000, c_0000, c_0000) \o <<ESC, "\\">>}  \* ST for BEL
    \cup {Stray(k) \o Reply(White, Black) : k \in 1..MaxStray}

\* Everything a terminal may send after a query; <<>> is a terminal that
\* does not know the query.  Characters after a whole response stay unread.
Responses ==
    {<<>>} \cup WellFormed \cup Malformed
        \cup {Reply(White, Black) \o Stray(k) : k \in 1..MaxStray}

Fds == {"fdi", "fdo"}
Devs == {1, 2}
dev(fd) == IF fd = "fdi" \/ sameDev THEN 1 ELSE 2

Running == {"L109", "L110", "L112", "L113", "L114", "L115", "L116", "L118",
            "L119", "L120", "L124", "L135", "L136"}
Ended == {"returned", "raised"}

Ev(op, ok) == [op |-> op, ok |-> ok]

\* A step inside the try block raises: control goes to the finally clause
RaiseInTry(op) ==
    /\ exc' = op
    /\ pc' = "L135"
    /\ log' = Append(log, Ev(op, FALSE))

\* The terminal delivers the next character of its response while the
\* attempt waits for it.
TerminalSends ==
    /\ pc \in {"L115", "L116", "L118"}
    /\ tosend # <<>>
    /\ ~eof
    /\ inq' = Append(inq, Head(tosend))
    /\ tosend' = Tail(tosend)
    /\ UNCHANGED <<envVars, isatty, sameDev, attr, orig, eof, out, buf, progVars, histVars>>

\* The terminal goes away while the attempt waits for its response.
TerminalHangup ==
    /\ pc \in {"L115", "L116", "L118"}
    /\ ~eof
    /\ eof' = TRUE
    /\ tosend' = <<>>
    /\ UNCHANGED <<envVars, isatty, sameDev, attr, orig, inq, out, buf, progVars, histVars>>

----------------------------------------------------------------------------
(* xterm_compatible_fg_bg, one action per call it makes *)

\* isatty_check testing "or" where the code tests "and"
isatty_check_either ==
    /\ pc = "idle"
    /\ log' = <<>>
    /\ orig' = attr
    /\ old_settings_in' = "unbound"
    /\ old_settings_out' = "unbound"
    /\ r' = FALSE
    /\ data' = NONE
    /\ exc' = "none"
    /\ IF isatty["fdi"] \/ isatty["fdo"]
       THEN pc' = "L109" /\ retval' = NoReturn
       ELSE pc' = "returned" /\ retval' = NoneNone
    /\ UNCHANGED <<envVars, isatty, sameDev, attr, tosend, inq, eof, out, buf>>

\* lines 98-103 and 137-139
isatty_check ==
    /\ pc = "idle"
    /\ log' = <<>>
    /\ orig' = attr
    /\ old_settings_in' = "unbound"
    /\ old_settings_out' = "unbound"
    /\ r' = FALSE
    /\ data' = NONE
    /\ exc' = "none"
    /\ IF isatty["fdi"] /\ isatty["fdo"]
       THEN pc' = "L109" /\ retval' = NoReturn
       ELSE pc' = "returned" /\ retval' = NoneNone
    /\ UNCHANGED <<envVars, isatty, sameDev, attr, tosend, inq, eof, out, buf>>

\* line 109, outside the try block
tcgetattr_fdi ==
    /\ pc = "L109"
    /\ \E ok \in BOOLEAN :
        /\ log' = Append(log, Ev("tcgetattr_fdi", ok))
        /\ IF ok
           THEN old_settings_in' = attr[dev("fdi")] /\ pc' = "L110" /\ exc' = exc
           ELSE old_settings_in' = old_settings_in /\ pc' = "raised" /\ exc' = "tcgetattr_fdi"
    /\ UNCHANGED <<envVars, termVars, old_settings_out, r, data, retval>>

\* line 110, outside the try block
tcgetattr_fdo ==
    /\ pc = "L110"
    /\ \E ok \in BOOLEAN :
        /\ log' = Append(log, Ev("tcgetattr_fdo", ok))
        /\ IF ok
           THEN old_settings_out' = attr[dev("fdo")] /\ pc' = "L112" /\ exc' = exc
           ELSE old_settings_out' = old_settings_out /\ pc' = "raised" /\ exc' = "tcgetattr_fdo"
    /\ UNCHANGED <<envVars, termVars, old_settings_in, r, data, retval>>

\* setraw_fdi with its failure caught and ignored
setraw_fdi_swallowed ==
    /\ pc = "L112"
    /\ \/ /\ attr' = [attr EXCEPT ![dev("fdi")] = "raw"]
          /\ log' = Append(log, Ev("setraw_fdi", TRUE))
       \/ /\ attr' = attr
          /\ log' = Append(log, Ev("setraw_fdi", FALSE))
    /\ pc' = "L113"
    /\ exc' = exc
    /\ UNCHANGED <<envVars, isatty, sameDev, orig, tosend, inq, eof, out, buf,
                   old_settings_in, old_settings_out, r, data, retval>>

\* line 112
setraw_fdi ==
    /\ pc = "L112"
    /\ \/ /\ attr' = [attr EXCEPT ![dev("fdi")] = "raw"]
          /\ log' = Append(log, Ev("setraw_fdi", TRUE))
          /\ pc' = "L113"
          /\ exc' = exc
       \/ RaiseInTry("setraw_fdi") /\ attr' = attr
    /\ UNCHANGED <<envVars, isatty, sameDev, orig, tosend, inq, eof, out, buf,
                   old_settings_in, old_settings_out, r, data, retval>>

\* line 113
setraw_fdo ==
    /\ pc = "L113"
    /\ \/ /\ attr' = [attr EXCEPT ![dev("fdo")] = "raw"]
          /\ log' = Append(log, Ev("setraw_fdo", TRUE))
          /\ pc' = "L114"
          /\ exc' = exc
       \/ RaiseInTry("setraw_fdo") /\ attr' = attr
    /\ UNCHANGED <<envVars, isatty, sameDev, orig, tosend, inq, eof, out, buf,
                   old_settings_in, old_settings_out, r, data, retval>>

\* line 114; the terminal that receives the query decides on its response
write_query ==
    /\ pc = "L114"
    /\ \/ /\ out' = Append(out, query_rgb \o bs \o <<NL>>)
          /\ \E resp \in Responses : tosend' = tosend \o resp
          /\ log' = Append(log, Ev("write", TRUE))
          /\ pc' = "L115"
          /\ exc' = exc
       \/ RaiseInTry("write") /\ out' = out /\ tosend' = tosend
    /\ UNCHANGED <<envVars, isatty, sameDev, attr, orig, inq, eof, buf,
                   old_settings_in, old_settings_out, r, data, retval>>

\* line 115
sleep ==
    /\ pc = "L115"
    /\ pc' = "L116"
    /\ log' = Append(log, Ev("sleep", TRUE))
    /\ UNCHANGED <<envVars, termVars, old_settings_in, old_settings_out, r, data,
                   exc, retval>>

\* select_fi with the result of the poll ignored: the read always follows
select_fi_ignored ==
    /\ pc = "L116"
    /\ \/ /\ r' = (inq # <<>> \/ eof)
          /\ log' = Append(log, Ev("select", TRUE))
          /\ exc' = exc
          /\ pc' = "L118"
          /\ retval' = retval
       \/ RaiseInTry("select") /\ r' = r /\ retval' = retval
    /\ UNCHANGED <<envVars, termVars, old_settings_in, old_settings_out, data>>

\* lines 116-117 and 131-133: one poll with timeout 0
select_fi ==
    /\ pc = "L116"
    /\ \/ /\ r' = (inq # <<>> \/ eof)
          /\ log' = Append(log, Ev("select", TRUE))
          /\ exc' = exc
          /\ IF r'
             THEN pc' = "L118" /\ retval' = retval
             ELSE pc' = "L135" /\ retval' = NoneNone
       \/ RaiseInTry("select") /\ r' = r /\ retval' = retval
    /\ UNCHANGED <<envVars, termVars, old_settings_in, old_settings_out, data>>

\* line 118: fi is sys.stdin, a text stream, whose read(n) returns when it
\* has n characters or meets the end of the input, and not before; it takes
\* what the descriptor holds into its own buffer.  A hangup shows as end of
\* input or as an error of the read.
read_48 ==
    /\ pc = "L118"
    /\ \/ /\ Len(buf) + Len(inq) >= ReadSize \/ eof
          /\ LET avail == buf \o inq
                 n == IF Len(avail) < ReadSize THEN Len(avail) ELSE ReadSize
             IN  /\ data' = SubSeq(avail, 1, n)
                 /\ buf' = SubSeq(avail, n + 1, Len(avail))
          /\ inq' = <<>>
          /\ log' = Append(log, Ev("read", TRUE))
          /\ pc' = "L119"
          /\ exc' = exc
       \/ /\ eof
          /\ RaiseInTry("read")
          /\ UNCHANGED <<data, buf, inq>>
    /\ UNCHANGED <<envVars, isatty, sameDev, attr, orig, tosend, eof, out,
                   old_settings_in, old_settings_out, r, retval>>

\* line 119
tcsetattr_fdi ==
    /\ pc = "L119"
    /\ \/ /\ attr' = [attr EXCEPT ![dev("fdi")] = old_settings_in]
          /\ log' = Append(log, Ev("tcsetattr_fdi", TRUE))
          /\ pc' = "L120"
          /\ exc' = exc
       \/ RaiseInTry("tcsetattr_fdi") /\ attr' = attr
    /\ UNCHANGED <<envVars, isatty, sameDev, orig, tosend, inq, eof, out, buf,
                   old_settings_in, old_settings_out, r, data, retval>>

\* line 120 left out: fdo is restored by the finally clause alone
tcsetattr_fdo_skipped ==
    /\ pc = "L120"
    /\ pc' = "L124"
    /\ UNCHANGED <<envVars, termVars, old_settings_in, old_settings_out, r, data,
                   exc, retval, log>>

\* line 120
tcsetattr_fdo ==
    /\ pc = "L120"
    /\ \/ /\ attr' = [attr EXCEPT ![dev("fdo")] = old_settings_out]
          /\ log' = Append(log, Ev("tcsetattr_fdo", TRUE))
          /\ pc' = "L124"
          /\ exc' = exc
       \/ RaiseInTry("tcsetattr_fdo") /\ attr' = attr
    /\ UNCHANGED <<envVars, isatty, sameDev, orig, tosend, inq, eof, out, buf,
                   old_settings_in, old_settings_out, r, data, retval>>

\* lines 121-129: on a match the return statement gives the six groups
match_fg_bg ==
    /\ pc = "L124"
    /\ log' = Append(log, Ev("match", TRUE))
    /\ retval' = IF re_match(fg_bg_pat, data) THEN FgBg(fg_bg_pat, data) ELSE retval
    /\ pc' = "L135"
    /\ UNCHANGED <<envVars, termVars, old_settings_in, old_settings_out, r, data,
                   exc>>

\* line 135 of the finally clause; an exception raised here replaces the
\* pending return or exception and leaves line 136 unexecuted
finally_tcsetattr_fdi ==
    /\ pc = "L135"
    /\ \/ /\ attr' = [attr EXCEPT ![dev("fdi")] = old_settings_in]
          /\ log' = Append(log, Ev("finally_tcsetattr_fdi", TRUE))
          /\ pc' = "L136"
          /\ UNCHANGED <<exc, retval>>
       \/ /\ attr' = attr
          /\ log' = Append(log, Ev("finally_tcsetattr_fdi", FALSE))
          /\ pc' = "raised"
          /\ exc' = "finally_tcsetattr_fdi"
          /\ retval' = NoReturn
    /\ UNCHANGED <<envVars, isatty, sameDev, orig, tosend, inq, eof, out, buf,
                   old_settings_in, old_settings_out, r, data>>

\* line 136 written with fdi for fdo
finally_tcsetattr_fdo_wrong_fd ==
    /\ pc = "L136"
    /\ \/ /\ attr' = [attr EXCEPT ![dev("fdi")] = old_settings_out]
          /\ log' = Append(log, Ev("finally_tcsetattr_fdo", TRUE))
          /\ exc' = exc
          /\ IF exc # "none"
             THEN pc' = "raised" /\ retval' = NoReturn
             ELSE /\ pc' = "returned"
                  /\ retval' = IF retval = NoReturn THEN NoneNone ELSE retval
       \/ /\ attr' = attr
          /\ log' = Append(log, Ev("finally_tcsetattr_fdo", FALSE))
          /\ pc' = "raised"
          /\ exc' = "finally_tcsetattr_fdo"
          /\ retval' = NoReturn
    /\ UNCHANGED <<envVars, isatty, sameDev, orig, tosend, inq, eof, out, buf,
                   old_settings_in, old_settings_out, r, data>>

\* line 136, then the pending exception, the pending return or line 141
finally_tcsetattr_fdo ==
    /\ pc = "L136"
    /\ \/ /\ attr' = [attr EXCEPT ![dev("fdo")] = old_settings_out]
          /\ log' = Append(log, Ev("finally_tcsetattr_fdo", TRUE))
          /\ exc' = exc
          /\ IF exc # "none"
             THEN pc' = "raised" /\ retval' = NoReturn
             ELSE /\ pc' = "returned"
                  /\ retval' = IF retval = NoReturn THEN NoneNone ELSE retval
       \/ /\ attr' = attr
          /\ log' = Append(log, Ev("finally_tcsetattr_fdo", FALSE))
          /\ pc' = "raised"
          /\ exc' = "finally_tcsetattr_fdo"
          /\ retval' = NoReturn
    /\ UNCHANGED <<envVars, isatty, sameDev, orig, tosend, inq, eof, out, buf,
                   old_settings_in, old_settings_out, r, data>>

NoCall == [fn |-> "none", rgb |-> <<0, 0, 0>>, ret |-> PyNone]
NoEnviron == [DARK_BG |-> NONE, COLORFGBG |-> NONE, TERM |-> NONE]

\* Nothing of the query has run; the two devices differ in their attributes.
QueryIdle ==
    /\ attr = [d \in Devs |-> IF d = 1 THEN "cooked" ELSE "cbreak"]
    /\ orig = attr
    /\ tosend = <<>>
    /\ eof = FALSE
    /\ out = <<>>
    /\ buf = <<>>
    /\ pc = "idle"
    /\ old_settings_in = "unbound"
    /\ old_settings_out = "unbound"
    /\ r = FALSE
    /\ data = NONE
    /\ exc = "none"
    /\ retval = NoReturn
    /\ log = <<>>

\* The process starts a query on any pair of descriptors, with up to
\* MaxStray characters already typed ahead.
Init ==
    /\ environ = NoEnviron
    /\ call = NoCall
    /\ isatty \in [Fds -> BOOLEAN]
    /\ sameDev \in BOOLEAN
    /\ inq \in {Stray(k) : k \in 0..MaxStray}
    /\ QueryIdle

Next ==
    \/ isatty_check
    \/ tcgetattr_fdi
    \/ tcgetattr_fdo
    \/ setraw_fdi
    \/ setraw_fdo
    \/ write_query
    \/ sleep
    \/ select_fi
    \/ read_48
    \/ tcsetattr_fdi
    \/ tcsetattr_fdo
    \/ match_fg_bg
    \/ finally_tcsetattr_fdi
    \/ finally_tcsetattr_fdo
    \/ TerminalSends
    \/ TerminalHangup

Spec == Init /\ [][Next]_vars

----------------------------------------------------------------------------
(* The heuristics called on an environment *)

s_xterm_256color == s_xterm \o <<"-", "2", "5", "6", "c", "o", "l", "o", "r">>
s_eterm_color == s_eterm \o <<"-", "c", "o", "l", "o", "r">>
s_dtterm_x == s_dtterm \o <<"-", "x">>
s_linux == <<"l", "i", "n", "u", "x">>
s_7_0 == <<"7", ";", "0">>

DarkBgValues == {NONE, <<>>, s_0, s_1, <<"0", "0">>}
ColorFgBgValues ==
    {NONE, <<>>, s_15_0, s_15_default_0, s_0_15, s_0_default_15,
     s_7_0, s_15_0 \o <<";">>}
TermValues ==
    {NONE, <<>>, s_xterm_256color, s_eterm_color, s_dtterm, s_dtterm_x,
     s_linux, <<"a">> \o s_xterm, <<"x", "t", "e", "r">>}
ChannelValues == {0, 5, 7368, 7373, 65535}

call_is_dark_color_fg_bg ==
    /\ call' = [fn |-> "is_dark_color_fg_bg", rgb |-> <<0, 0, 0>>,
                ret |-> is_dark_color_fg_bg(environ.DARK_BG, environ.COLORFGBG)]
    /\ UNCHANGED <<environ, termVars, progVars, histVars>>

call_get_default_bg ==
    /\ call' = [fn |-> "get_default_bg", rgb |-> <<0, 0, 0>>,
                ret |-> get_default_bg(environ.TERM)]
    /\ UNCHANGED <<environ, termVars, progVars, histVars>>

call_is_dark_background ==
    /\ call' = [fn |-> "is_dark_background", rgb |-> <<0, 0, 0>>,
                ret |-> is_dark_background(environ.DARK_BG, environ.COLORFGBG,
                                           environ.TERM)]
    /\ UNCHANGED <<environ, termVars, progVars, histVars>>

call_is_dark_rgb ==
    /\ \E red \in ChannelValues, g \in ChannelValues, b \in ChannelValues :
        call' = [fn |-> "is_dark_rgb", rgb |-> <<red, g, b>>,
                 ret |-> is_dark_rgb(red, g, b)]
    /\ UNCHANGED <<environ, termVars, progVars, histVars>>

\* Any environment; no query is made.
InitEnv ==
    /\ environ \in [DARK_BG : DarkBgValues, COLORFGBG : ColorFgBgValues,
                    TERM : TermValues]
    /\ call = NoCall
    /\ isatty = [fd \in Fds |-> TRUE]
    /\ sameDev = TRUE
    /\ inq = <<>>
    /\ QueryIdle

NextEnv ==
    \/ call_is_dark_color_fg_bg
    \/ call_get_default_bg
    \/ call_is_dark_background
    \/ call_is_dark_rgb

SpecEnv == InitEnv /\ [][NextEnv]_vars

----------------------------------------------------------------------------
(* Properties of the heuristics, under SpecEnv *)

Dark == PyTrue
Light == PyFalse

DarkPatterns == {s_15_0, s_15_default_0}
LightPatterns == {s_0_15, s_0_default_15}

\* The verdict the priority order gives where it gives one
EnvironmentTable(ret) ==
    /\ environ.DARK_BG # NONE =>
           ret = (IF environ.DARK_BG = s_0 THEN Light ELSE Dark)
    /\ environ.DARK_BG = NONE /\ environ.COLORFGBG \in DarkPatterns => ret = Dark
    /\ environ.DARK_BG = NONE /\ environ.COLORFGBG \in LightPatterns => ret = Light
    /\ environ.DARK_BG = NONE /\ environ.COLORFGBG = NONE => ret = Dark

TermDefault(term) ==
    IF /\ term # NONE
       /\ \/ (Len(term) >= 5 /\ SubSeq(term, 1, 5) \in {s_xterm, s_eterm})
          \/ term = s_dtterm
    THEN Light
    ELSE Dark

NoTerminalOperation ==
    /\ pc = "idle"
    /\ log = <<>>
    /\ out = <<>>
    /\ attr = orig
    /\ inq = <<>>

C6_classify ==
    call.fn = "is_dark_rgb" =>
        call.ret = (IF 16 * call.rgb[1] + 16 * call.rgb[2] + 16 * call.rgb[3] >= 117963
                    THEN Light
                    ELSE Dark)

----------------------------------------------------------------------------
(* Properties of xterm_compatible_fg_bg, under Spec *)

BothTty == isatty["fdi"] /\ isatty["fdo"]

Idx(op) == {i \in DOMAIN log : log[i].op = op}
Did(op) == Idx(op) # {}
OkCount(ops) == Cardinality({i \in DOMAIN log : log[i].op \in ops /\ log[i].ok})
Failed(ops) == \E i \in DOMAIN log : log[i].op \in ops /\ ~log[i].ok
AllOps == {log[i].op : i \in DOMAIN log}

\* every call of b comes after a call of a that succeeded
Before(a, b) == \A j \in Idx(b) : \E i \in Idx(a) : i < j /\ log[i].ok

Switched == OkCount({"setraw_fdi", "setraw_fdo"}) > 0
RestoresIn == {"tcsetattr_fdi", "finally_tcsetattr_fdi"}
RestoresOut == {"tcsetattr_fdo", "finally_tcsetattr_fdo"}
Cleanup == {"finally_tcsetattr_fdi", "finally_tcsetattr_fdo"}

BothRestored ==
    /\ attr = orig
    /\ attr[dev("fdi")] = old_settings_in
    /\ attr[dev("fdo")] = old_settings_out

C2_restored_exactly_once ==
    (pc = "returned" /\ BothTty) =>
        /\ OkCount(RestoresIn) = 1
        /\ OkCount(RestoresOut) = 1

\* C2 as amended: an attempt that saved the attributes and returns has
\* restored each descriptor once when the poll found no input, and twice
\* when input was read (after the read and again in the cleanup), whether
\* the response parsed or not; never zero times.
C2_restored_once_or_twice ==
    (pc = "returned" /\ BothTty) =>
        /\ OkCount(RestoresIn) = (IF Did("read") THEN 2 ELSE 1)
        /\ OkCount(RestoresOut) = (IF Did("read") THEN 2 ELSE 1)
        /\ BothRestored

C2_witness ==
    /\ pc = "returned"
    /\ retval.kind = "fg, bg"
    /\ OkCount(RestoresIn) = 2
    /\ OkCount(RestoresOut) = 2

\* C3: when fdi or fdo is not a terminal the call returns None, None at
\* once: nothing is saved, switched, written, polled or read, and the
\* terminal is as it was.
C3_not_a_tty ==
    ~BothTty =>
        /\ pc \in {"idle", "returned"}
        /\ pc = "returned" => retval = NoneNone /\ exc = "none"
        /\ log = <<>>
        /\ old_settings_in = "unbound" /\ old_settings_out = "unbound"
        /\ attr = orig
        /\ out = <<>>
        /\ tosend = <<>>
        /\ data = NONE /\ buf = <<>>
        /\ inq \in {Stray(k) : k \in 0..MaxStray}

C3_witness ==
    /\ pc = "returned"
    /\ isatty["fdi"]
    /\ ~isatty["fdo"]
    /\ retval = NoneNone

\* The response grammar, position by position
HexUpper == {"A", "B", "C", "D", "E", "F"}
Slashes == {14, 19, 38, 43}
Bels == {24, 48}
Grammar(s, digits) ==
    /\ s # NONE
    /\ Len(s) = 48
    /\ SubSeq(s, 1, 9) = <<ESC, "]", "1", "0", ";", "r", "g", "b", ":">>
    /\ SubSeq(s, 25, 33) = <<ESC, "]", "1", "1", ";", "r", "g", "b", ":">>
    /\ \A i \in Slashes : s[i] = "/"
    /\ \A i \in Bels : s[i] = BEL
    /\ \A i \in (10..23) \cup (34..47) : i \notin Slashes => s[i] \in digits

HexDigits == <<"0", "1", "2", "3", "4", "5", "6", "7", "8", "9",
               "a", "b", "c", "d", "e", "f">>
HexDigitsUpper == <<"0", "1", "2", "3", "4", "5", "6", "7", "8", "9",
                    "A", "B", "C", "D", "E", "F">>
DigitValue(c) ==
    (CHOOSE i \in 1..16 : HexDigits[i] = c \/ HexDigitsUpper[i] = c) - 1
HexValue(s) ==
    4096 * DigitValue(s[1]) + 256 * DigitValue(s[2]) + 16 * DigitValue(s[3])
        + DigitValue(s[4])

AsInt(s) == [type |-> "int", s |-> <<>>, n |-> HexValue(s)]
AsStr(s) == [type |-> "str", s |-> s, n |-> 0]
Channels(s, Conv(_)) ==
    [kind |-> "fg, bg",
     fg |-> <<Conv(SubSeq(s, 10, 13)), Conv(SubSeq(s, 15, 18)), Conv(SubSeq(s, 20, 23))>>,
     bg |-> <<Conv(SubSeq(s, 34, 37)), Conv(SubSeq(s, 39, 42)), Conv(SubSeq(s, 44, 47))>>]

Parsed == pc = "returned" /\ Did("match")

ExpectedQuery ==
    <<ESC, "]", "1", "0", ";", "?", BEL, ESC, "]", "1", "1", ";", "?", BEL>>
        \o <<BS, BS, BS, BS, BS, BS, BS, BS, BS, BS, BS, BS, BS, BS>> \o <<NL>>

\* C9: both descriptors' attributes are saved before either is switched to
\* raw mode; both are raw before the query is written; the query is written
\* once, then one wait, then one poll; a read happens at most once, only
\* after a poll that found input, and takes at most 48 characters; both
\* descriptors are restored before the data is parsed.
C9_order_of_steps ==
    /\ \A s \in {"setraw_fdi", "setraw_fdo"} :
           Before("tcgetattr_fdi", s) /\ Before("tcgetattr_fdo", s)
    /\ Before("setraw_fdi", "setraw_fdo")
    /\ Before("setraw_fdi", "write") /\ Before("setraw_fdo", "write")
    /\ pc \in {"L109", "L110", "L112"} => attr = orig
    /\ old_settings_in \in {"unbound", orig[dev("fdi")]}
    /\ old_settings_out \in {"unbound", orig[dev("fdo")]}
    /\ pc = "L114" => attr[dev("fdi")] = "raw" /\ attr[dev("fdo")] = "raw"
    /\ Before("write", "sleep") /\ Before("sleep", "select") /\ Before("select", "read")
    /\ \A op \in {"write", "sleep", "select", "read", "match"} :
           Cardinality(Idx(op)) <= 1
    /\ Did("read") => r
    /\ data # NONE => Len(data) <= 48
    /\ Before("read", "tcsetattr_fdi")
    /\ Before("tcsetattr_fdi", "match") /\ Before("tcsetattr_fdo", "match")
    /\ pc = "L124" => attr = orig
    /\ \A i \in DOMAIN out : out[i] = ExpectedQuery
    /\ Len(out) = OkCount({"write"})
    /\ (pc = "returned" /\ BothTty) =>
           \A op \in {"write", "sleep", "select"} : Cardinality(Idx(op)) = 1

C9_witness ==
    /\ pc = "returned"
    /\ Did("match")
    /\ retval = NoneNone
    /\ out = <<ExpectedQuery>>

ProgramStep ==
    \/ isatty_check
    \/ tcgetattr_fdi
    \/ tcgetattr_fdo
    \/ setraw_fdi
    \/ setraw_fdo
    \/ write_query
    \/ sleep
    \/ select_fi
    \/ read_48
    \/ tcsetattr_fdi
    \/ tcsetattr_fdo
    \/ match_fg_bg
    \/ finally_tcsetattr_fdi
    \/ finally_tcsetattr_fdo

\* The terminal has sent the start of a response and sends no more of it.
TruncatedResponse ==
    \E resp \in WellFormed, k \in 1..(ReadSize - 1) : inq = SubSeq(resp, 1, k)

\* C10: an attempt under way can always take its next step, so it returns
\* whatever the terminal does: when the terminal has sent nothing, and when
\* it has sent a truncated response with nothing more to follow, in which
\* case the read returns what there is.
C10_never_waits_for_input ==
    (pc \in Running /\ tosend = <<>> /\ (inq = <<>> \/ TruncatedResponse))
        => ENABLED ProgramStep

====
